---- MODULE Spec2Model ----
(***************************************************************************)
(* Clipboard_PRO: the clipboard poller (src/src/clipboard_monitor.py) and  *)
(* the record store (src/src/storage.py) with its configuration            *)
(* (src/src/config.py), as one state machine.                              *)
(*                                                                         *)
(* Every handler is one atomic action (the sequential view of the program).*)
(* File operations are taken to succeed; the only failure modelled is the  *)
(* decoding of a clipboard bitmap.  The wall clock is read in whole        *)
(* seconds, never goes back, and two readings may coincide.                *)
(***************************************************************************)
EXTENDS Integers, Sequences, FiniteSets, TLC

\* ------------------------------------------------------------------ bounds
\* number of clock advances explored
MaxTicks == 2
\* seconds added by one clock advance
TickSeconds == 45

\* ------------------------------------------------------- program constants
\* Python's None for max_records / max_age_minutes
None == -1
\* max_age_seconds = max_age_minutes * 60
SecondsPerMinute == 60
\* Storage.__init__(self, config=None, max_records=50)
DefaultMaxRecords == 50

\* --------------------------------------------------------- clipboard data
Texts == {"a"}
\* CF_TEXT payloads (bytes) and what content.decode('gbk') makes of them
LegacyTexts == {"bytes:a"}
DecodeGbk(bytes) == IF bytes = "bytes:a" THEN "a" ELSE bytes
\* CF_HDROP payloads: tuples of paths
FileLists == {<<"f1", "f2">>}
\* CF_DIB payloads
Images == {"d1"}

RECURSIVE JoinLines(_)
\* '\n'.join(files)
JoinLines(files) ==
    IF Len(files) = 0 THEN ""
    ELSE IF Len(files) = 1 THEN files[1]
    ELSE files[1] \o "\n" \o JoinLines(Tail(files))

\* hashlib.md5(dib_data).hexdigest(): <<first eight hex digits, the rest>>
Md5(dib) ==
    IF dib = "d1" THEN <<"0a0a0a0a", "d1rest">>
    ELSE IF dib = "d2" THEN <<"0b0b0b0b", "d2rest">>
    ELSE <<"0c0c0c0c", dib>>

HexDigest(h) == h[1] \o h[2]

\* os.path.join(self.temp_dir, f"temp_image_{image_hash[:8]}.png")
TempPath(h) == "temp_image_" \o h[1] \o ".png"

\* the formats a clipboard state offers, with the payload of each
Clip(fmts, u, t, h, d) ==
    [fmts |-> fmts, utext |-> u, text |-> t, hdrop |-> h, dib |-> d]

ClipStates ==
    {Clip({}, "", "", <<>>, "")}
    \cup {Clip({"CF_UNICODETEXT", "CF_TEXT"}, t, "", <<>>, "") : t \in Texts}
    \cup {Clip({"CF_TEXT"}, "", b, <<>>, "") : b \in LegacyTexts}
    \cup {Clip({"CF_HDROP"}, "", "", f, "") : f \in FileLists}
    \cup {Clip({"CF_DIB"}, "", "", <<>>, d) : d \in Images}
    \cup {Clip({"CF_TEXT", "CF_HDROP"}, "", b, f, "") :
              b \in LegacyTexts, f \in FileLists}
    \cup {Clip({"CF_HDROP", "CF_DIB"}, "", "", f, d) :
              f \in FileLists, d \in Images}

\* ------------------------------------------------------------------ state
VARIABLES
    now,           \* the wall clock, in seconds
    frozen,        \* sys.frozen with a bundle directory other than the exe's
    config,        \* the Config object's dictionary (persisted by every setter)
    hasConfig,     \* Storage.config is not None (it then is the Config object)
    max_records,   \* Storage.max_records
    records,       \* Storage.records
    disk,          \* clipboard_data.json: <<>> when absent, else <<records>>
    files,         \* the image files in the poller's temp_images directory
    tempDir,       \* the poller's temp_images directory exists
    clipboard,     \* the OS clipboard
    last_content,  \* ClipboardMonitor.last_content
    captured,      \* what is on the clipboard went to add_record since it came
    format,        \* the clipboard format the check just run read ("" if none)
    targets,       \* the ids the deletion just run was given ({} if none)
    instances,     \* each process of the program: where it is in main()
    poll,          \* the poll thread: where it is in add_record, its locals
    ui,            \* the UI thread: its event queue, where it is, its locals
    config_file,   \* config.json, and what the setters were last given
    monitor,       \* ClipboardMonitor.running and the thread of _monitor_loop
    observers,     \* Storage.observers
    calls,         \* the observer operation just run; what notify_change called
    max_records_arg, \* the max_records argument Storage.__init__ was given
    last           \* the operation that led to this state, and what it did

\* the variables of the sequential view
main == <<now, frozen, config, hasConfig, max_records, records, disk, files,
          tempDir, clipboard, last_content, captured, format, targets,
          last>>

\* the variables only the other views use
aside == <<instances, poll, ui, config_file, monitor, observers, calls,
           max_records_arg>>

vars == <<main, aside>>

\* ---------------------------------------------------------------- helpers
Min(a, b) == IF a <= b THEN a ELSE b

NoneContent == [kind |-> "none", val |-> ""]
StrContent(x) == [kind |-> "str", val |-> x]
TupleContent(x) == [kind |-> "tuple", val |-> x]

\* Python's == between the values last_content takes (None, str, tuple)
PyEq(x, y) == x.kind = y.kind /\ x.val = y.val

\* datetime.now().strftime('%Y-%m-%d %H:%M:%S') of a clock read in whole seconds
Strftime(t) == t

\* the record _handle_new_content builds
NewRecord(content_type, content, t) ==
    [id |-> t, content |-> content, type |-> content_type,
     timestamp |-> Strftime(t), favorited |-> FALSE]

RemoveAt(seq, i) == SubSeq(seq, 1, i - 1) \o SubSeq(seq, i + 1, Len(seq))

\* the content paths of the image records of a list
ImagePaths(recs) ==
    {recs[i].content : i \in {j \in DOMAIN recs : recs[j].type = "image"}}

\* delete_file_permanently on each of a set of image paths
DeleteFiles(fs, paths) == fs \ paths

\* self.records[:n]
Prefix(recs, n) == SubSeq(recs, 1, Min(n, Len(recs)))

\* self.records[n:]
Suffix(recs, n) == SubSeq(recs, Min(n, Len(recs)) + 1, Len(recs))

\* the store and the part of the filesystem it touches, threaded through the
\* methods; expired and evicted count what the running operation dropped
StoreState == [records |-> records, files |-> files, disk |-> disk,
               tempDir |-> tempDir, expired |-> 0, evicted |-> 0]

\* ---------------------------------------------------------------- Storage
\* _filter_by_age that forgets the files of the expired image records
FilterByAgeKeepingFiles(s, hasCfg, cfg, t) ==
    IF ~hasCfg THEN s
    ELSE IF cfg.max_age_minutes = None THEN s
    ELSE LET max_age_seconds == cfg.max_age_minutes * SecondsPerMinute
             Fresh(r) == t - r.id <= max_age_seconds
             Stale(r) == ~Fresh(r)
         IN [s EXCEPT !.records = SelectSeq(s.records, Fresh),
                      !.expired = @ + Len(SelectSeq(s.records, Stale))]

\* Storage._filter_by_age
FilterByAge(s, hasCfg, cfg, t) ==
    IF ~hasCfg THEN s
    ELSE IF cfg.max_age_minutes = None THEN s
    ELSE LET max_age_seconds == cfg.max_age_minutes * SecondsPerMinute
             Fresh(r) == t - r.id <= max_age_seconds
             Stale(r) == ~Fresh(r)
             filtered_records == SelectSeq(s.records, Fresh)
             records_to_delete == SelectSeq(s.records, Stale)
         IN [s EXCEPT !.records = filtered_records,
                      !.files = DeleteFiles(@, ImagePaths(records_to_delete)),
                      !.expired = @ + Len(records_to_delete)]

\* Storage._save_data
SaveData(s, maxrec) ==
    LET over == maxrec # None /\ Len(s.records) > maxrec
        records_to_delete == IF over THEN Suffix(s.records, maxrec) ELSE <<>>
        kept == IF over THEN Prefix(s.records, maxrec) ELSE s.records
    IN [s EXCEPT !.records = kept,
                 !.files = DeleteFiles(@, ImagePaths(records_to_delete)),
                 !.evicted = @ + Len(records_to_delete),
                 !.disk = <<kept>>]

\* the truncation of add_record and _load_data: a slice, no file is deleted
Truncate(s, maxrec) ==
    IF maxrec = None THEN s
    ELSE [s EXCEPT !.records = Prefix(@, maxrec),
                   !.evicted = @ + Len(Suffix(s.records, maxrec))]

\* update_config without its truncation
TruncateDeletingNothing(s, maxrec) == s

\* the truncation of update_config: the files of the cut image records go too
TruncateDeleting(s, maxrec) ==
    IF maxrec # None /\ Len(s.records) > maxrec
    THEN [s EXCEPT !.records = Prefix(@, maxrec),
                   !.files = DeleteFiles(@, ImagePaths(Suffix(s.records, maxrec))),
                   !.evicted = @ + Len(Suffix(s.records, maxrec))]
    ELSE s

\* a scan that compares nothing
MatchesNothing(recs, record) == {}

\* the indices of the records add_record's scan matches
Matches(recs, record) ==
    {i \in DOMAIN recs : recs[i].content = record.content
                         /\ recs[i].type = record.type}

SetMin(S) == CHOOSE x \in S : \A y \in S : x <= y

\* a duplicate branch that inserts the new record and leaves the old one
AddDuplicateBeside(s, record, maxrec) ==
    SaveData([s EXCEPT !.records = <<record>> \o @], maxrec)

\* a duplicate branch that bumps the matched record where it stands
AddDuplicateInPlace(s, record, maxrec) ==
    LET i == SetMin(Matches(s.records, record))
    IN SaveData([s EXCEPT !.records[i].id = record.id,
                          !.records[i].timestamp = record.timestamp],
                maxrec)

\* a duplicate branch that runs the age filter as the new-record branch does
AddDuplicateFiltering(s, record, maxrec) ==
    LET i == SetMin(Matches(s.records, record))
        existing_record == [s.records[i] EXCEPT !.id = record.id,
                                                !.timestamp = record.timestamp]
    IN SaveData(FilterByAge([s EXCEPT !.records = <<existing_record>>
                                                  \o RemoveAt(s.records, i)],
                            hasConfig, config, record.id),
                maxrec)

\* the duplicate branch of add_record: bump id and timestamp, list.remove
\* (the first element equal to the bumped record), insert at 0, save
AddDuplicate(s, record, maxrec) ==
    LET i == SetMin(Matches(s.records, record))
        existing_record == [s.records[i] EXCEPT !.id = record.id,
                                                !.timestamp = record.timestamp]
        bumped == [s.records EXCEPT ![i] = existing_record]
        j == SetMin({k \in DOMAIN bumped : bumped[k] = existing_record})
    IN SaveData([s EXCEPT !.records = <<existing_record>> \o RemoveAt(bumped, j)],
                maxrec)

\* the new-record branch of add_record: insert at 0, age filter, slice, save
AddNew(s, record, hasCfg, cfg, maxrec, t) ==
    SaveData(Truncate(FilterByAge([s EXCEPT !.records = <<record>> \o @],
                                  hasCfg, cfg, t),
                      maxrec),
             maxrec)

\* Storage.add_record
AddRecord(s, record, hasCfg, cfg, maxrec, t) ==
    IF Matches(s.records, record) # {}
    THEN AddDuplicate(s, record, maxrec)
    ELSE AddNew(s, record, hasCfg, cfg, maxrec, t)

\* an update_config that saves whether or not it dropped a record
UpdateConfigSaving(s, cfg, t) ==
    SaveData(TruncateDeleting(FilterByAge(s, TRUE, cfg, t), cfg.max_records),
             cfg.max_records)

\* Storage.update_config, after self.config and self.max_records are set
UpdateConfigStore(s, cfg, t) ==
    LET old_count == Len(s.records)
        s2 == TruncateDeleting(FilterByAge(s, TRUE, cfg, t), cfg.max_records)
    IN IF Len(s2.records) < old_count THEN SaveData(s2, cfg.max_records) ELSE s2

\* Storage.delete_record
DeleteRecordStore(s, record_id, maxrec) ==
    LET hits == {i \in DOMAIN s.records : s.records[i].id = record_id}
        Other(r) == r.id # record_id
        gone == IF hits # {} /\ s.records[SetMin(hits)].type = "image"
                THEN {s.records[SetMin(hits)].content} ELSE {}
    IN SaveData([s EXCEPT !.files = DeleteFiles(@, gone),
                          !.records = SelectSeq(@, Other)],
                maxrec)

\* Storage.delete_multiple
DeleteMultipleStore(s, record_ids, maxrec) ==
    LET Hit(r) == r.id \in record_ids
        Other(r) == r.id \notin record_ids
        records_to_delete == SelectSeq(s.records, Hit)
    IN SaveData([s EXCEPT !.files = DeleteFiles(@, ImagePaths(records_to_delete)),
                          !.records = SelectSeq(@, Other)],
                maxrec)

\* Storage.clear_all: the storage's temp_images directory is the poller's
\* unless the program is frozen, and then it does not exist
ClearAllStore(s, isFrozen, maxrec) ==
    LET s1 == SaveData([s EXCEPT !.files = DeleteFiles(@, ImagePaths(s.records)),
                                 !.records = <<>>],
                       maxrec)
        s2 == [s1 EXCEPT !.disk = <<>>]
    IN IF ~isFrozen /\ s2.tempDir
       THEN [s2 EXCEPT !.files = {}, !.tempDir = FALSE]
       ELSE s2

RECURSIVE InsertDesc(_, _)
\* place r after every element whose id is >= r.id (a stable descending sort)
InsertDesc(sorted, r) ==
    IF sorted = <<>> THEN <<r>>
    ELSE IF Head(sorted).id >= r.id
         THEN <<Head(sorted)>> \o InsertDesc(Tail(sorted), r)
         ELSE <<r>> \o sorted

RECURSIVE SortDesc(_)
\* self.records.sort(key=lambda x: x['id'], reverse=True)
SortDesc(recs) ==
    IF recs = <<>> THEN <<>>
    ELSE InsertDesc(SortDesc(SubSeq(recs, 1, Len(recs) - 1)), recs[Len(recs)])

\* Storage._cleanup_orphaned_images
CleanupOrphanedImages(s, isFrozen) ==
    IF isFrozen \/ ~s.tempDir THEN s
    ELSE [s EXCEPT !.files = @ \cap ImagePaths(s.records)]

\* Storage._load_data
LoadData(s, isFrozen, hasCfg, cfg, maxrec, t) ==
    IF s.disk = <<>> THEN [s EXCEPT !.records = <<>>]
    ELSE CleanupOrphanedImages(
             Truncate(FilterByAge([s EXCEPT !.records = SortDesc(s.disk[1])],
                                  hasCfg, cfg, t),
                      maxrec),
             isFrozen)

\* ----------------------------------------------------------------- Config
\* Config._load_default_config
DefaultConfig ==
    [max_records |-> None, max_age_minutes |-> None, clear_data_on_exit |-> TRUE]

\* the dictionaries the setters can leave in the Config object (the limits
\* explored: one or two records, one minute, or none)
ConfigValues ==
    [max_records : {None, 1, 2},
     max_age_minutes : {None, 1},
     clear_data_on_exit : {TRUE}]

\* ------------------------------------------------- the two threads at rest
\* no record: the value of a thread's record local outside add_record
NoRecord == NewRecord("", "", 0)

\* the poll thread between two checks
PollIdle ==
    [pc |-> "idle", dup |-> FALSE, record |-> NoRecord, tmp |-> <<>>,
     added |-> {}]

\* the UI thread waiting in the event loop, nothing rendered yet
UiIdle ==
    [pc |-> "loop", pending |-> 0, emitted |-> 0, rendered |-> 0,
     by |-> "", direct |-> FALSE, aliased |-> FALSE, list |-> <<>>, idx |-> 0,
     shown |-> <<>>, instants |-> {}, tmp |-> <<>>, hit |-> {}]

\* number of processes of the program explored
MaxInstances == 3

Pids == 1..MaxInstances

\* the first process runs, the others are not started
OneInstance == [p \in Pids |-> IF p = 1 THEN "running" ELSE "off"]

\* no config.json yet; given: what the setters were last given, the defaults
\* for the keys never set
NoConfigFile == [file |-> <<>>, given |-> DefaultConfig, fresh |-> FALSE]

\* the poll thread not started: ClipboardMonitor.__init__ sets running False;
\* open: the thread holds the clipboard open; checks, adds: the checks and
\* the add_record calls started so far; stopped: stop_monitoring was called;
\* after: the checks started since; raised: the exception of the check
\* running; failed: the exception of the check that ended last
MonitorOff ==
    [pc |-> "off", running |-> FALSE, open |-> FALSE, checks |-> 0,
     adds |-> 0, stopped |-> FALSE, after |-> 0, raised |-> "", failed |-> ""]

\* no observer operation yet.  op, arg: the operation just run and the
\* observer it was given; at: how far the loop of notify_change is; done:
\* the observers it called, with the method called; raised: those that raised
NoCalls == [op |-> "", arg |-> "", at |-> 0, done |-> <<>>, raised |-> {}]

\* ---------------------------------------------------------------- actions
\* the trace of an operation that touched no record
Trace(op) ==
    [op |-> op, type |-> "", content |-> "", pos |-> 0, expired |-> 0,
     evicted |-> 0, deleted |-> 0, notified |-> FALSE]

\* what an operation leaves behind: the store, the files, and its trace
\* (type, content: the record it was given; pos: where add_record's scan
\* matched; deleted: how many image files it removed)
Commit(s, op, type, content, pos, notified) ==
    /\ records' = s.records
    /\ files' = s.files
    /\ disk' = s.disk
    /\ tempDir' = s.tempDir
    /\ last' = [op |-> op, type |-> type, content |-> content, pos |-> pos,
                expired |-> s.expired, evicted |-> s.evicted,
                deleted |-> Cardinality(files \ s.files), notified |-> notified]

\* a constructor that keeps its max_records argument whatever the config
StorageMaxRecordsGiven(hasCfg, cfg, arg) == arg

\* self.max_records = max_records if config is None
\*                    else config.get_max_records()
StorageMaxRecords(hasCfg, cfg, arg) ==
    IF ~hasCfg THEN arg ELSE cfg.max_records

\* Storage.__init__ (and ClipboardMonitor.__init__) on a first run: no data
\* file yet; built without a config (as main does) or with one, and with
\* one of the given values for the max_records argument
InitStore(values, args) ==
    /\ now = 0
    /\ frozen \in BOOLEAN
    /\ hasConfig \in BOOLEAN
    /\ config \in IF hasConfig THEN values ELSE {DefaultConfig}
    /\ max_records_arg \in args
    /\ max_records = StorageMaxRecords(hasConfig, config, max_records_arg)
    /\ records = <<>>
    /\ disk = <<>>
    /\ files = {}
    /\ tempDir = TRUE
    /\ clipboard = Clip({}, "", "", <<>>, "")
    /\ last_content = NoneContent
    /\ captured = FALSE
    /\ format = ""
    /\ targets = {}
    /\ instances = OneInstance
    /\ poll = PollIdle
    /\ ui = UiIdle
    /\ config_file = NoConfigFile
    /\ monitor = MonitorOff
    /\ observers = <<>>
    /\ calls = NoCalls
    /\ last = Trace("init")

\* the argument left to its default, as every caller in the repository does
InitWith(values) == InitStore(values, {DefaultMaxRecords})

Init == InitWith(ConfigValues)

\* the wall clock advances
Tick ==
    /\ now < MaxTicks * TickSeconds
    /\ now' = now + TickSeconds
    /\ last' = Trace("tick")
    /\ format' = ""
    /\ targets' = {}
    /\ UNCHANGED <<frozen, config, hasConfig, max_records, records, disk, files,
                   tempDir, clipboard, last_content, captured, aside>>

\* another program puts something else on the clipboard
ClipChange ==
    /\ \E c \in ClipStates \ {clipboard} : clipboard' = c
    /\ captured' = FALSE
    /\ last' = Trace("copy")
    /\ format' = ""
    /\ targets' = {}
    /\ UNCHANGED <<now, frozen, config, hasConfig, max_records, records, disk,
                   files, tempDir, last_content, aside>>

\* a check that forgets to record what it handled
RememberNothing(value) == UNCHANGED last_content

\* self.last_content = <the value the check compared>
Remember(value) == last_content' = value

\* ClipboardMonitor._handle_new_content: add_record, then notify_change
HandleNewContent(s, content_type, content) ==
    LET record == NewRecord(content_type, content, now)
        hits == Matches(s.records, record)
    IN /\ Commit(AddRecord(s, record, hasConfig, config, max_records, now),
                 IF hits # {} THEN "add_dup" ELSE "add_new",
                 content_type, content,
                 IF hits # {} THEN SetMin(hits) ELSE 0, TRUE)
       /\ captured' = TRUE

\* a check that finds what it compared equal to last_content
NoChange ==
    /\ last' = Trace("poll_same")
    /\ UNCHANGED <<records, disk, files, tempDir, last_content, captured>>

\* an image branch that records the hash before it decodes
DecodeFailedRemembering(image_hash) ==
    /\ last' = Trace("poll_failed")
    /\ last_content' = StrContent(HexDigest(image_hash))
    /\ UNCHANGED <<records, disk, files, tempDir, captured>>

\* the except clause of the image branch: the check ends there
DecodeFailed(image_hash) ==
    /\ last' = Trace("poll_failed")
    /\ UNCHANGED <<records, disk, files, tempDir, last_content, captured>>

\* _check_clipboard, CF_UNICODETEXT available
CheckUnicodeText ==
    /\ "CF_UNICODETEXT" \in clipboard.fmts
    /\ LET content == clipboard.utext
       IN IF ~PyEq(StrContent(content), last_content)
          THEN /\ HandleNewContent(StoreState, "text", content)
               /\ Remember(StrContent(content))
          ELSE NoChange
    /\ format' = "CF_UNICODETEXT"
    /\ targets' = {}
    /\ UNCHANGED <<now, frozen, config, hasConfig, max_records, clipboard, aside>>

\* _check_clipboard, CF_TEXT available and CF_UNICODETEXT not
CheckLegacyText ==
    /\ "CF_UNICODETEXT" \notin clipboard.fmts
    /\ "CF_TEXT" \in clipboard.fmts
    /\ LET content == DecodeGbk(clipboard.text)
       IN IF ~PyEq(StrContent(content), last_content)
          THEN /\ HandleNewContent(StoreState, "text", content)
               /\ Remember(StrContent(content))
          ELSE NoChange
    /\ format' = "CF_TEXT"
    /\ targets' = {}
    /\ UNCHANGED <<now, frozen, config, hasConfig, max_records, clipboard, aside>>

\* a file branch that does not wait for the text formats to be absent
CheckFilesDespiteText ==
    /\ "CF_HDROP" \in clipboard.fmts
    /\ LET file_list == clipboard.hdrop
       IN IF ~PyEq(TupleContent(file_list), last_content)
          THEN /\ HandleNewContent(StoreState, "file", JoinLines(file_list))
               /\ Remember(TupleContent(file_list))
          ELSE NoChange
    /\ format' = "CF_HDROP"
    /\ targets' = {}
    /\ UNCHANGED <<now, frozen, config, hasConfig, max_records, clipboard, aside>>

\* _check_clipboard, CF_HDROP available and no text format
CheckFiles ==
    /\ "CF_UNICODETEXT" \notin clipboard.fmts
    /\ "CF_TEXT" \notin clipboard.fmts
    /\ "CF_HDROP" \in clipboard.fmts
    /\ LET file_list == clipboard.hdrop
       IN IF ~PyEq(TupleContent(file_list), last_content)
          THEN /\ HandleNewContent(StoreState, "file", JoinLines(file_list))
               /\ Remember(TupleContent(file_list))
          ELSE NoChange
    /\ format' = "CF_HDROP"
    /\ targets' = {}
    /\ UNCHANGED <<now, frozen, config, hasConfig, max_records, clipboard, aside>>

\* _check_clipboard, CF_DIB available and neither text nor files: Image.open
\* of the bitmap may raise, and then the except clause ends the check
CheckImage ==
    /\ "CF_UNICODETEXT" \notin clipboard.fmts
    /\ "CF_TEXT" \notin clipboard.fmts
    /\ "CF_HDROP" \notin clipboard.fmts
    /\ "CF_DIB" \in clipboard.fmts
    /\ LET image_hash == Md5(clipboard.dib)
           temp_path == TempPath(image_hash)
       IN IF ~PyEq(StrContent(HexDigest(image_hash)), last_content)
          THEN \E decoded \in BOOLEAN :
                  IF decoded
                  THEN /\ HandleNewContent(
                              [StoreState EXCEPT !.tempDir = TRUE,
                                                 !.files = @ \cup {temp_path}],
                              "image", temp_path)
                       /\ Remember(StrContent(HexDigest(image_hash)))
                  ELSE DecodeFailed(image_hash)
          ELSE NoChange
    /\ format' = "CF_DIB"
    /\ targets' = {}
    /\ UNCHANGED <<now, frozen, config, hasConfig, max_records, clipboard, aside>>

\* _check_clipboard, none of the four formats available
CheckNoFormat ==
    /\ clipboard.fmts \cap {"CF_UNICODETEXT", "CF_TEXT", "CF_HDROP", "CF_DIB"} = {}
    /\ last' = Trace("poll_none")
    /\ format' = ""
    /\ targets' = {}
    /\ UNCHANGED <<now, frozen, config, hasConfig, max_records, records, disk,
                   files, tempDir, clipboard, last_content, captured, aside>>

\* MainWindow.delete_record on the i-th record shown
DeleteRecord ==
    /\ \E i \in DOMAIN records :
          /\ Commit(DeleteRecordStore(StoreState, records[i].id, max_records),
                    "delete_record", records[i].type, "", 0, FALSE)
          /\ targets' = {records[i].id}
    /\ format' = ""
    /\ UNCHANGED <<now, frozen, config, hasConfig, max_records, clipboard,
                   last_content, captured, aside>>

\* MainWindow.delete_selected on a selection of the records shown
DeleteMultiple ==
    /\ \E ids \in SUBSET {records[i].id : i \in DOMAIN records} :
          /\ ids # {}
          /\ Commit(DeleteMultipleStore(StoreState, ids, max_records),
                    "delete_multiple", "", "", 0, FALSE)
          /\ targets' = ids
    /\ format' = ""
    /\ UNCHANGED <<now, frozen, config, hasConfig, max_records, clipboard,
                   last_content, captured, aside>>

\* MainWindow.confirm_clear
ClearAll ==
    /\ Commit(ClearAllStore(StoreState, frozen, max_records),
              "clear_all", "", "", 0, FALSE)
    /\ format' = ""
    /\ targets' = {}
    /\ UNCHANGED <<now, frozen, config, hasConfig, max_records, clipboard,
                   last_content, captured, aside>>

\* MainWindow.show_settings accepted: the dialog's setters, then update_config
UpdateConfig ==
    /\ \E cfg \in ConfigValues :
          /\ config' = cfg
          /\ hasConfig' = TRUE
          /\ max_records' = cfg.max_records
          /\ Commit(UpdateConfigStore(StoreState, cfg, now),
                    "update_config", "", "", 0, FALSE)
    /\ format' = ""
    /\ targets' = {}
    /\ UNCHANGED <<now, frozen, clipboard, last_content, captured, aside>>

\* the process ends without clearing and the program is started again:
\* Config(), Storage(...) with _load_data, then ClipboardMonitor(storage),
\* which makes its temp_images directory.  The data file
\* and config.json lie in the bundle directory, which a one-file frozen build
\* unpacks anew at every start.
Restart ==
    /\ \E kept \in IF frozen THEN BOOLEAN ELSE {TRUE} :
          LET found == IF kept THEN disk ELSE <<>>
          IN /\ config' = IF kept THEN config ELSE DefaultConfig
             /\ max_records' = StorageMaxRecords(hasConfig, config',
                                                 max_records_arg)
             /\ Commit([LoadData([StoreState EXCEPT !.records = <<>>,
                                                    !.disk = found],
                                 frozen, hasConfig, config', max_records', now)
                           EXCEPT !.tempDir = TRUE],
                       IF found = <<>> THEN "load_none" ELSE "load",
                       "", "", 0, FALSE)
    /\ last_content' = NoneContent
    /\ captured' = FALSE
    /\ format' = ""
    /\ targets' = {}
    /\ UNCHANGED <<now, frozen, hasConfig, clipboard, aside>>

Next ==
    \/ Tick
    \/ ClipChange
    \/ CheckUnicodeText
    \/ CheckLegacyText
    \/ CheckFiles
    \/ CheckImage
    \/ CheckNoFormat
    \/ DeleteRecord
    \/ DeleteMultiple
    \/ ClearAll
    \/ UpdateConfig
    \/ Restart

Spec == Init /\ [][Next]_vars

\* --------------------------------------------------- the processes view
\* the processes that hold the shared memory segment
\* 'ClipboardPRO_SingleInstance': a segment exists once a process has called
\* QSharedMemory.create, and no code of the program does
Holders(inst) == {}

\* check_single_instance: attach() succeeds when the segment exists
CheckSingleInstance(inst) == Holders(inst) # {}

\* the main-view and thread variables main() does not touch in this view
apart == <<now, frozen, config, hasConfig, max_records, records, disk, files,
           tempDir, clipboard, last_content, captured, format, targets, last,
           poll, ui, config_file, monitor, observers, calls,
           max_records_arg>>

\* main() up to the check: "already running" returns, else QApplication
Launch ==
    /\ \E p \in Pids :
          /\ instances[p] = "off"
          /\ instances' = [instances EXCEPT
                              ![p] = IF CheckSingleInstance(instances)
                                     THEN "off" ELSE "app"]
    /\ UNCHANGED apart

\* storage = Storage()
BuildStorage ==
    /\ \E p \in Pids :
          /\ instances[p] = "app"
          /\ instances' = [instances EXCEPT ![p] = "storage"]
    /\ UNCHANGED apart

\* monitor = ClipboardMonitor(storage)
BuildMonitor ==
    /\ \E p \in Pids :
          /\ instances[p] = "storage"
          /\ instances' = [instances EXCEPT ![p] = "monitor"]
    /\ UNCHANGED apart

\* window = MainWindow(storage, monitor)
BuildWindow ==
    /\ \E p \in Pids :
          /\ instances[p] = "monitor"
          /\ instances' = [instances EXCEPT ![p] = "window"]
    /\ UNCHANGED apart

\* monitor.start_monitoring(); window.show(); app.exec()
Run ==
    /\ \E p \in Pids :
          /\ instances[p] = "window"
          /\ instances' = [instances EXCEPT ![p] = "running"]
    /\ UNCHANGED apart

\* sys.exit(app.exec()) after QApplication.quit()
Exit ==
    /\ \E p \in Pids :
          /\ instances[p] = "running"
          /\ instances' = [instances EXCEPT ![p] = "off"]
    /\ UNCHANGED apart

NextProcesses ==
    \/ Launch
    \/ BuildStorage
    \/ BuildMonitor
    \/ BuildWindow
    \/ Run
    \/ Exit

SpecProcesses == Init /\ [][NextProcesses]_vars

\* ------------------------------------------------------- the exit view
\* the dictionaries of a Config in this view: no limit, either exit setting
ExitConfigValues ==
    [max_records : {None}, max_age_minutes : {None},
     clear_data_on_exit : BOOLEAN]

\* the program has not quit
Running == last.op # "quit"

\* MainWindow.quit_application: stop_monitoring, then clear_all when the
\* window has a config whose clear_data_on_exit is true, then
\* QApplication.quit()
QuitApplication ==
    /\ Running
    /\ IF hasConfig /\ config.clear_data_on_exit
       THEN Commit(ClearAllStore(StoreState, frozen, max_records),
                   "quit", "", "", 0, FALSE)
       ELSE Commit(StoreState, "quit", "", "", 0, FALSE)
    /\ format' = ""
    /\ targets' = {}
    /\ UNCHANGED <<now, frozen, config, hasConfig, max_records, clipboard,
                   last_content, captured, aside>>

InitExit == InitWith(ExitConfigValues)

NextExit ==
    \/ ClipChange
    \/ Running /\ CheckUnicodeText
    \/ Running /\ CheckLegacyText
    \/ Running /\ CheckFiles
    \/ Running /\ CheckImage
    \/ Running /\ CheckNoFormat
    \/ Running /\ DeleteRecord
    \/ QuitApplication
    \/ Restart

SpecExit == InitExit /\ [][NextExit]_vars

\* ------------------------------------------------------ the Config view
\* json.dump / json.load of the values the dictionary holds
JsonNumber(v) == IF v = None THEN "null" ELSE ToString(v)

JsonBool(v) == IF v THEN "true" ELSE "false"

\* the largest number the settings dialog offers (minutes)
MaxSetting == 60

ParseNumber(text) ==
    IF text = "null" THEN None
    ELSE CHOOSE n \in 0..MaxSetting : ToString(n) = text

ParseBool(text) == text = "true"

\* Config._save_config: the whole dictionary, as JSON text
SaveConfig(d) ==
    <<[max_records |-> JsonNumber(d.max_records),
       max_age_minutes |-> JsonNumber(d.max_age_minutes),
       clear_data_on_exit |-> JsonBool(d.clear_data_on_exit)]>>

\* Config.__init__: the defaults, updated with what config.json holds
LoadConfig(file) ==
    IF file = <<>> THEN DefaultConfig
    ELSE [max_records |-> ParseNumber(file[1].max_records),
          max_age_minutes |-> ParseNumber(file[1].max_age_minutes),
          clear_data_on_exit |-> ParseBool(file[1].clear_data_on_exit)]

\* the values the settings dialog passes to the setters
RecordSettings == {None, 10, 20}
AgeSettings == {None, 5}

\* Config.set_max_records
SetMaxRecords ==
    /\ \E v \in RecordSettings :
          /\ config' = [config EXCEPT !.max_records = v]
          /\ config_file' = [file |-> SaveConfig(config'),
                             given |-> [config_file.given EXCEPT
                                           !.max_records = v],
                             fresh |-> FALSE]
    /\ UNCHANGED <<now, frozen, hasConfig, max_records, records, disk, files,
                   tempDir, clipboard, last_content, captured, format, targets,
                   last, instances, poll, ui, monitor, observers, calls,
                   max_records_arg>>

\* Config.set_max_age_minutes
SetMaxAgeMinutes ==
    /\ \E v \in AgeSettings :
          /\ config' = [config EXCEPT !.max_age_minutes = v]
          /\ config_file' = [file |-> SaveConfig(config'),
                             given |-> [config_file.given EXCEPT
                                           !.max_age_minutes = v],
                             fresh |-> FALSE]
    /\ UNCHANGED <<now, frozen, hasConfig, max_records, records, disk, files,
                   tempDir, clipboard, last_content, captured, format, targets,
                   last, instances, poll, ui, monitor, observers, calls,
                   max_records_arg>>

\* Config.set_clear_data_on_exit
SetClearDataOnExit ==
    /\ \E v \in BOOLEAN :
          /\ config' = [config EXCEPT !.clear_data_on_exit = v]
          /\ config_file' = [file |-> SaveConfig(config'),
                             given |-> [config_file.given EXCEPT
                                           !.clear_data_on_exit = v],
                             fresh |-> FALSE]
    /\ UNCHANGED <<now, frozen, hasConfig, max_records, records, disk, files,
                   tempDir, clipboard, last_content, captured, format, targets,
                   last, instances, poll, ui, monitor, observers, calls,
                   max_records_arg>>

\* Config() in the running program: config.json is where the setters left it
NewConfig ==
    /\ config' = LoadConfig(config_file.file)
    /\ config_file' = [config_file EXCEPT !.fresh = TRUE]
    /\ UNCHANGED <<now, frozen, hasConfig, max_records, records, disk, files,
                   tempDir, clipboard, last_content, captured, format, targets,
                   last, instances, poll, ui, monitor, observers, calls,
                   max_records_arg>>

\* Config() at the next start of the program: config.json lies in
\* dirname(dirname(__file__)), the bundle directory, which a one-file frozen
\* build unpacks anew at every start
NewConfigNextRun ==
    /\ \E kept \in IF frozen THEN BOOLEAN ELSE {TRUE} :
          /\ config_file' = [config_file EXCEPT
                                !.file = IF kept THEN @ ELSE <<>>,
                                !.fresh = TRUE]
          /\ config' = LoadConfig(config_file'.file)
    /\ UNCHANGED <<now, frozen, hasConfig, max_records, records, disk, files,
                   tempDir, clipboard, last_content, captured, format, targets,
                   last, instances, poll, ui, monitor, observers, calls,
                   max_records_arg>>

InitConfig ==
    /\ Init
    /\ hasConfig
    /\ config = DefaultConfig

NextConfig ==
    \/ SetMaxRecords
    \/ SetMaxAgeMinutes
    \/ SetClearDataOnExit
    \/ NewConfig
    \/ NewConfigNextRun

SpecConfig == InitConfig /\ [][NextConfig]_vars

\* ------------------------------------------------------- the threads view
\* The poll thread (ClipboardMonitor._monitor_loop) and the UI thread (the Qt
\* event loop) share the Storage object without a lock.  A step is one
\* operation the interpreter does not interleave: a list method call, a
\* slice, a list comprehension, one iteration of a for loop, an attribute
\* store.  The store is built as main builds it: no config, max_records 50.
\* A thread that iterates the list self.records was bound to keeps that list
\* when self.records is bound to another one (aliased = FALSE from then on).

\* number of add_record calls explored
MaxAdds == 2

\* the texts the poller captures in this view
RaceTexts == {"a", "b"}

Contents(recs) == [i \in DOMAIN recs |-> recs[i].content]

Ids(recs) == {recs[i].id : i \in DOMAIN recs}

\* what a change of the store's list by the poll thread means to the UI
\* thread: an iteration of the old list goes on over the old list when
\* self.records is bound anew, and sees a change made in place
Seeing(u, old, new, rebound) ==
    IF u.pc # "render" THEN u
    ELSE [u EXCEPT !.aliased = IF rebound THEN FALSE ELSE @,
                   !.list = IF rebound /\ u.aliased THEN old ELSE @,
                   !.instants = @ \cup {new}]

\* the main-view variables no step of the two threads changes
still == <<frozen, config, hasConfig, max_records, files, tempDir, clipboard,
           last_content, captured, format, targets, last, instances,
           config_file, monitor, observers, calls, max_records_arg>>

\* a check finds new text; _handle_new_content builds the record and
\* add_record scans the list for a record of equal content and type
PollBegin ==
    /\ poll.pc = "idle"
    /\ ui.pc # "quit"
    /\ now < MaxAdds
    /\ \E c \in RaceTexts :
          LET record == NewRecord("text", c, now + 1)
              hits == Matches(records, record)
          IN poll' = [poll EXCEPT
                         !.pc = IF hits # {} THEN "bump" ELSE "insert",
                         !.dup = hits # {},
                         !.record = IF hits # {} THEN records[SetMin(hits)]
                                    ELSE record,
                         !.tmp = <<record>>]
    /\ now' = now + 1
    /\ UNCHANGED <<records, disk, ui, still>>

\* existing_record['id'] = ...; existing_record['timestamp'] = ...: the
\* dictionary is changed, in whichever lists hold it
PollBump ==
    /\ poll.pc = "bump"
    /\ LET existing_record == poll.record
           bumped == [existing_record EXCEPT
                         !.id = poll.tmp[1].id,
                         !.timestamp = poll.tmp[1].timestamp]
           In(recs) == [i \in DOMAIN recs |->
                           IF recs[i] = existing_record THEN bumped ELSE recs[i]]
       IN /\ records' = In(records)
          /\ poll' = [poll EXCEPT
                         !.pc = "remove",
                         !.record = bumped,
                         !.added = {IF r = existing_record THEN bumped ELSE r :
                                       r \in @}]
          /\ ui' = [Seeing(ui, records, records', FALSE) EXCEPT
                       !.list = In(@)]
    /\ UNCHANGED <<now, disk, still>>

\* self.records.remove(existing_record): ValueError when the list
\* self.records is bound to by now does not hold it, and the check that called
\* add_record catches the exception
PollRemove ==
    /\ poll.pc = "remove"
    /\ LET at == {i \in DOMAIN records : records[i] = poll.record}
       IN IF at = {}
          THEN /\ poll' = [poll EXCEPT !.pc = "idle", !.record = NoRecord,
                                       !.tmp = <<>>]
               /\ UNCHANGED <<records, ui>>
          ELSE /\ records' = RemoveAt(records, SetMin(at))
               /\ poll' = [poll EXCEPT !.pc = "insert"]
               /\ ui' = Seeing(ui, records, records', FALSE)
    /\ UNCHANGED <<now, disk, still>>

\* self.records.insert(0, record), of the new or of the bumped record
PollInsert ==
    /\ poll.pc = "insert"
    /\ records' = <<poll.record>> \o records
    /\ poll' = [poll EXCEPT
                   !.pc = IF poll.dup THEN "save" ELSE "slice",
                   !.added = {r \in @ : r.content # poll.record.content}
                             \cup {poll.record}]
    /\ ui' = Seeing(ui, records, records', FALSE)
    /\ UNCHANGED <<now, disk, still>>

\* the right-hand side of self.records = self.records[:self.max_records]
PollSlice ==
    /\ poll.pc = "slice"
    /\ poll' = [poll EXCEPT !.pc = "assign",
                            !.tmp = Truncate(StoreState, max_records).records]
    /\ UNCHANGED <<now, records, disk, ui, still>>

\* the store of the slice into self.records
PollAssign ==
    /\ poll.pc = "assign"
    /\ records' = poll.tmp
    /\ poll' = [poll EXCEPT !.pc = "save", !.tmp = <<>>]
    /\ ui' = Seeing(ui, records, records', TRUE)
    /\ UNCHANGED <<now, disk, still>>

\* _save_data at the end of add_record
PollSave ==
    /\ poll.pc = "save"
    /\ LET s == SaveData(StoreState, max_records)
       IN /\ records' = s.records
          /\ disk' = s.disk
          /\ ui' = Seeing(ui, records, records', s.records # records)
    /\ poll' = [poll EXCEPT !.pc = "notify", !.tmp = <<>>]
    /\ UNCHANGED <<now, still>>

\* an on_storage_change that renders on the thread that notifies
OnStorageChangeRendering(u, thread) ==
    [u EXCEPT !.emitted = @ + 1, !.by = thread, !.shown = records,
              !.instants = {records}]

\* MainWindow.on_storage_change: update_ui_signal.emit(); the slot belongs to
\* an object of the UI thread, so a call from another thread is queued
OnStorageChange(u, thread) ==
    [u EXCEPT !.emitted = @ + 1, !.pending = @ + 1]

\* storage.notify_change() at the end of _handle_new_content
PollNotify ==
    /\ poll.pc = "notify"
    /\ ui' = OnStorageChange(ui, "poll")
    /\ poll' = [poll EXCEPT !.pc = "idle", !.record = NoRecord]
    /\ UNCHANGED <<now, records, disk, still>>

\* load_records up to the for loop: get_records() returns self.records itself
LoadRecords(u, direct) ==
    [u EXCEPT !.pc = "render", !.by = "ui", !.direct = direct,
              !.aliased = TRUE, !.list = <<>>, !.idx = 0, !.shown = <<>>,
              !.instants = {records}]

\* the event loop delivers a queued update_ui_signal to load_records
UiRenderStart ==
    /\ ui.pc = "loop"
    /\ ui.pending > 0
    /\ ui' = [LoadRecords(ui, FALSE) EXCEPT !.pending = @ - 1]
    /\ UNCHANGED <<now, records, disk, poll, still>>

\* one iteration of "for record in records" (or its end)
UiRenderStep ==
    /\ ui.pc = "render"
    /\ LET lst == IF ui.aliased THEN records ELSE ui.list
       IN IF ui.idx < Len(lst)
          THEN ui' = [ui EXCEPT !.idx = @ + 1,
                                !.shown = Append(@, lst[ui.idx + 1])]
          ELSE ui' = [ui EXCEPT !.pc = "loop",
                                !.rendered = IF ui.direct THEN @ ELSE @ + 1]
    /\ UNCHANGED <<now, records, disk, poll, still>>

\* the user deletes records shown (delete_record, delete_selected): the list
\* comprehension over self.records
UiDeleteBegin ==
    /\ ui.pc = "loop"
    /\ \E ids \in SUBSET Ids(ui.shown) :
          /\ ids # {}
          /\ ui' = [ui EXCEPT
                       !.pc = "del_assign",
                       !.tmp = DeleteMultipleStore(StoreState, ids,
                                                   None).records,
                       !.hit = @ \cup {records[i].content :
                                          i \in {j \in DOMAIN records :
                                                    records[j].id \in ids}}]
    /\ UNCHANGED <<now, records, disk, poll, still>>

\* the store of the comprehension's list into self.records
UiDeleteAssign ==
    /\ ui.pc = "del_assign"
    /\ records' = ui.tmp
    /\ ui' = [ui EXCEPT !.pc = "del_save", !.tmp = <<>>]
    /\ UNCHANGED <<now, disk, poll, still>>

\* _save_data at the end of the deletion, then the handler's load_records
UiDeleteSave ==
    /\ ui.pc = "del_save"
    /\ LET s == SaveData(StoreState, max_records)
       IN /\ records' = s.records
          /\ disk' = s.disk
    /\ ui' = LoadRecords(ui, TRUE)
    /\ UNCHANGED <<now, poll, still>>

\* quit_application: the poller is told to stop, the event loop ends and what
\* is still queued is never delivered (the window has no config: no clear_all)
UiQuit ==
    /\ ui.pc = "loop"
    /\ ui' = [ui EXCEPT !.pc = "quit"]
    /\ UNCHANGED <<now, records, disk, poll, still>>

PollProgress ==
    \/ PollBump
    \/ PollRemove
    \/ PollInsert
    \/ PollSlice
    \/ PollAssign
    \/ PollSave
    \/ PollNotify

UiProgress ==
    \/ UiRenderStart
    \/ UiRenderStep
    \/ UiDeleteAssign
    \/ UiDeleteSave

InitThreads ==
    /\ Init
    /\ ~frozen
    /\ ~hasConfig

NextThreads ==
    \/ PollBegin
    \/ PollBump
    \/ PollRemove
    \/ PollInsert
    \/ PollSlice
    \/ PollAssign
    \/ PollSave
    \/ PollNotify
    \/ UiRenderStart
    \/ UiRenderStep
    \/ UiDeleteBegin
    \/ UiDeleteAssign
    \/ UiDeleteSave
    \/ UiQuit

\* each thread goes on running: neither is held up for ever
SpecThreads ==
    /\ InitThreads
    /\ [][NextThreads]_vars
    /\ WF_vars(PollProgress)
    /\ WF_vars(UiProgress)

\* ------------------------------------------------------- the monitor view
\* The thread of ClipboardMonitor._monitor_loop and the calls of
\* start_monitoring and stop_monitoring the UI thread makes.  A step of the
\* loop thread is what it does between two places where the UI thread can set
\* self.running: the loop test, the opening of the clipboard, the branch the
\* check takes, an except clause, the finally clause, the sleep.  The branch a
\* check takes is chosen freely here; what it does to the store is the
\* sequential view's.

\* number of checks (and of add_record calls) counted
MaxChecks == 3

Counted(n) == Min(n + 1, MaxChecks)

\* the other variables of this view's steps
calm == <<main, instances, poll, ui, config_file, observers, calls,
          max_records_arg>>

\* start_monitoring, as main calls it once the window is built
StartMonitoring ==
    /\ monitor.pc = "off"
    /\ monitor' = [monitor EXCEPT !.running = TRUE, !.pc = "test"]
    /\ UNCHANGED calm

\* stop_monitoring, as quit_application calls it; join(timeout=1) returns
\* whether the thread has ended or not
StopMonitoring ==
    /\ monitor.pc # "off"
    /\ ~monitor.stopped
    /\ monitor' = [monitor EXCEPT !.running = FALSE, !.stopped = TRUE]
    /\ UNCHANGED calm

\* a loop that never reads self.running
LoopTestForever ==
    /\ monitor.pc = "test"
    /\ monitor' = [monitor EXCEPT !.pc = "enter"]
    /\ UNCHANGED calm

\* while self.running:
LoopTest ==
    /\ monitor.pc = "test"
    /\ monitor' = [monitor EXCEPT !.pc = IF monitor.running THEN "enter"
                                        ELSE "done"]
    /\ UNCHANGED calm

\* _check_clipboard up to OpenClipboard(), which raises when another program
\* holds the clipboard
CheckOpen ==
    /\ monitor.pc = "enter"
    /\ \E ok \in BOOLEAN :
          monitor' = [monitor EXCEPT
                         !.checks = Counted(@),
                         !.after = IF monitor.stopped THEN Counted(@) ELSE @,
                         !.open = ok,
                         !.raised = IF ok THEN "" ELSE "open",
                         !.pc = IF ok THEN "body" ELSE "except"]
    /\ UNCHANGED calm

\* the branch of the format found: nothing to read, nothing new, a capture
\* (add_record, which may raise), or a read or decode that raises
CheckBody ==
    /\ monitor.pc = "body"
    /\ \E path \in {"none", "same", "capture", "capture_raises", "read_raises"} :
          monitor' = [monitor EXCEPT
                         !.adds = IF path \in {"capture", "capture_raises"}
                                  THEN Counted(@) ELSE @,
                         !.raised = IF path \in {"capture_raises", "read_raises"}
                                    THEN "body" ELSE "",
                         !.pc = IF path \in {"capture_raises", "read_raises"}
                                THEN "except" ELSE "finally"]
    /\ UNCHANGED calm

\* except Exception as e: print(...), of the branch or of the whole check
CheckExcept ==
    /\ monitor.pc = "except"
    /\ monitor' = [monitor EXCEPT !.pc = "finally"]
    /\ UNCHANGED calm

\* a check without its finally clause
CheckFinallyLeavingOpen ==
    /\ monitor.pc = "finally"
    /\ monitor' = [monitor EXCEPT !.failed = monitor.raised, !.raised = "",
                                  !.pc = "sleep"]
    /\ UNCHANGED calm

\* finally: CloseClipboard(), whose own exception (the clipboard was never
\* opened) is caught; the check returns
CheckFinally ==
    /\ monitor.pc = "finally"
    /\ monitor' = [monitor EXCEPT !.open = FALSE,
                                  !.failed = monitor.raised, !.raised = "",
                                  !.pc = "sleep"]
    /\ UNCHANGED calm

\* time.sleep(0.5)
LoopSleep ==
    /\ monitor.pc = "sleep"
    /\ monitor' = [monitor EXCEPT !.pc = "test"]
    /\ UNCHANGED calm

LoopProgress ==
    \/ LoopTest
    \/ CheckOpen
    \/ CheckBody
    \/ CheckExcept
    \/ CheckFinally
    \/ LoopSleep

NextMonitor ==
    \/ StartMonitoring
    \/ StopMonitoring
    \/ LoopTest
    \/ CheckOpen
    \/ CheckBody
    \/ CheckExcept
    \/ CheckFinally
    \/ LoopSleep

\* the loop thread goes on running once started
SpecMonitor == Init /\ [][NextMonitor]_vars /\ WF_vars(LoopProgress)

\* ----------------------------------------------------- the observers view
\* Storage.observers and the loop of notify_change.  The observers: the main
\* window (it has on_storage_change, and update from QWidget) and two objects
\* with one of the two methods each, as add_observer asks for.  A call of an
\* observer may raise.  No observer of the repository registers or removes an
\* observer from inside its callback, so the list is left alone while
\* notify_change runs.
ObserverIds == {"window", "listener", "legacy"}

\* hasattr(observer, 'on_storage_change') / hasattr(observer, 'update')
Methods(o) ==
    IF o = "window" THEN {"on_storage_change", "update"}
    ELSE IF o = "listener" THEN {"on_storage_change"}
    ELSE {"update"}

\* the method notify_change calls: on_storage_change first, else update
Dispatch(o) ==
    IF "on_storage_change" \in Methods(o) THEN "on_storage_change" ELSE "update"

\* observer in self.observers
Registered(list, o) == \E i \in DOMAIN list : list[i] = o

\* the other variables of this view's steps
apartObservers == <<main, instances, poll, ui, config_file, monitor,
                    max_records_arg>>

\* Storage.add_observer
AddObserver ==
    /\ calls.at = 0
    /\ \E o \in ObserverIds :
          /\ observers' = IF ~Registered(observers, o)
                          THEN Append(observers, o) ELSE observers
          /\ calls' = [NoCalls EXCEPT !.op = "add", !.arg = o]
    /\ UNCHANGED apartObservers

\* Storage.remove_observer: list.remove of the first (the only) occurrence
RemoveObserver ==
    /\ calls.at = 0
    /\ \E o \in ObserverIds :
          /\ observers' =
                IF Registered(observers, o)
                THEN RemoveAt(observers,
                              SetMin({i \in DOMAIN observers : observers[i] = o}))
                ELSE observers
          /\ calls' = [NoCalls EXCEPT !.op = "remove", !.arg = o]
    /\ UNCHANGED apartObservers

\* notify_change: for observer in self.observers
NotifyBegin ==
    /\ calls.at = 0
    /\ calls' = [NoCalls EXCEPT !.op = "notify", !.at = 1]
    /\ UNCHANGED <<observers, apartObservers>>

\* a loop without its try: an observer that raises ends notify_change
NotifyStepUncaught ==
    /\ calls.at > 0
    /\ IF calls.at <= Len(observers)
       THEN \E raises \in BOOLEAN :
               LET o == observers[calls.at]
               IN calls' = [calls EXCEPT
                               !.at = IF raises THEN 0 ELSE @ + 1,
                               !.op = IF raises THEN "notified" ELSE @,
                               !.done = Append(@, [observer |-> o,
                                                   method |-> Dispatch(o)]),
                               !.raised = IF raises THEN @ \cup {o} ELSE @]
       ELSE calls' = [calls EXCEPT !.at = 0, !.op = "notified"]
    /\ UNCHANGED <<observers, apartObservers>>

\* one iteration of the loop (or its end): the call of the observer's method
\* inside try/except Exception
NotifyStep ==
    /\ calls.at > 0
    /\ IF calls.at <= Len(observers)
       THEN \E raises \in BOOLEAN :
               LET o == observers[calls.at]
               IN calls' = [calls EXCEPT
                               !.at = @ + 1,
                               !.done = Append(@, [observer |-> o,
                                                   method |-> Dispatch(o)]),
                               !.raised = IF raises THEN @ \cup {o} ELSE @]
       ELSE calls' = [calls EXCEPT !.at = 0, !.op = "notified"]
    /\ UNCHANGED <<observers, apartObservers>>

NextObservers ==
    \/ AddObserver
    \/ RemoveObserver
    \/ NotifyBegin
    \/ NotifyStep

SpecObservers == Init /\ [][NextObservers]_vars

\* --------------------------------------------------------- the build view
\* Storage(config, max_records) built with or without a config and with the
\* max_records argument given or left to its default, then fed a new text
\* every other second, enough of them to pass the default limit of 50 records
\* and the age limit of one minute.
MaxCaptures == 52
\* seconds between two copies
PauseSeconds == 2

\* the values of the max_records argument explored
BuildArguments == {DefaultMaxRecords, 1}

\* the text copied at second n
TextAt(n) == "t" \o ToString(n)

\* the text of this moment is on the clipboard and went to add_record
Settled == captured /\ clipboard.utext = TextAt(now)

\* time passes, once the text of this moment is captured
Pause ==
    /\ Settled
    /\ now < MaxCaptures * PauseSeconds
    /\ now' = now + PauseSeconds
    /\ last' = Trace("tick")
    /\ format' = ""
    /\ targets' = {}
    /\ UNCHANGED <<frozen, config, hasConfig, max_records, records, disk, files,
                   tempDir, clipboard, last_content, captured, aside>>

\* the user copies the text of this moment
CopyText ==
    /\ clipboard.utext # TextAt(now)
    /\ clipboard' = Clip({"CF_UNICODETEXT", "CF_TEXT"}, TextAt(now), "", <<>>, "")
    /\ captured' = FALSE
    /\ last' = Trace("copy")
    /\ format' = ""
    /\ targets' = {}
    /\ UNCHANGED <<now, frozen, config, hasConfig, max_records, records, disk,
                   files, tempDir, last_content, aside>>

InitBuild == InitStore(ConfigValues, BuildArguments)

\* the program is restarted between two copies, not between a copy and its
\* capture
NextBuild ==
    \/ Pause
    \/ CopyText
    \/ CheckUnicodeText
    \/ Settled /\ Restart

SpecBuild == InitBuild /\ [][NextBuild]_vars

\* ----------------------------------------------------------------- claims
\* the value a check compares with last_content, by format priority
Seen(cb) ==
    IF "CF_UNICODETEXT" \in cb.fmts THEN StrContent(cb.utext)
    ELSE IF "CF_TEXT" \in cb.fmts THEN StrContent(DecodeGbk(cb.text))
    ELSE IF "CF_HDROP" \in cb.fmts THEN TupleContent(cb.hdrop)
    ELSE IF "CF_DIB" \in cb.fmts THEN StrContent(HexDigest(Md5(cb.dib)))
    ELSE NoneContent

Adds == {"add_new", "add_dup"}
PollOps == {"poll_same", "poll_failed", "poll_none"} \cup Adds
FilterOps == {"add_new", "update_config", "load"}

\* C1: add_record of a record whose content and type equal those of a record
\* anywhere in the store creates no second entry: the length is unchanged,
\* the stored record takes the new id and timestamp and is first in the list.
C1_DuplicateResurfaces ==
    [][last'.op = "add_dup" =>
          /\ Len(records') = Len(records)
          /\ records'[1].content = last'.content
          /\ records'[1].type = last'.type
          /\ \E i \in DOMAIN records :
                records'[1] = [records[i] EXCEPT !.id = now',
                                                 !.timestamp = Strftime(now')]
          /\ Cardinality(Matches(records', records'[1])) = 1]_vars

\* C1 witness: the record matched was the third of three, and is now first
C1_Witness ==
    /\ last.op = "add_dup"
    /\ last.pos = 3
    /\ Len(records) = 3
    /\ records[1].content = last.content

\* C2: once max_records is a number N, the store holds at most N records in
\* every state reached by add_record, the deletions, update_config and load.
C2_AtMostMaxRecords == max_records # None => Len(records) <= max_records

\* C2 witness: a full store of two after an operation that evicted
C2_Witness == max_records = 2 /\ Len(records) = 2 /\ last.evicted > 0

\* C3: an image record dropped from the store by add_record or update_config
\* while the count limit evicts has its file removed in that operation.
C3_EvictedImageFileRemoved ==
    [][(last'.op \in Adds \cup {"update_config"} /\ last'.evicted > 0) =>
          \A i \in DOMAIN records :
             (records[i].type = "image" /\ Matches(records', records[i]) = {})
                => records[i].content \notin files']_vars

\* C4: after an age-filter pass (load of a data file, add_record of a new record,
\* update_config) under max_age_minutes = M every surviving record has
\* now - id <= M*60 and the file of every expired image record is gone; with
\* no limit or no config the pass removes nothing.
C4_AgeFilter ==
    [][last'.op \in FilterOps =>
          LET M == IF hasConfig' THEN config'.max_age_minutes ELSE None
              before == IF last'.op = "load" THEN disk[1] ELSE records
              given == IF last'.op = "add_new" THEN 1 ELSE 0
          IN IF M = None
             THEN /\ last'.expired = 0
                  /\ Len(records') + last'.evicted = Len(before) + given
             ELSE /\ \A j \in DOMAIN records' :
                        now' - records'[j].id <= M * SecondsPerMinute
                  /\ \A i \in DOMAIN before :
                        (/\ before[i].type = "image"
                         /\ now' - before[i].id > M * SecondsPerMinute)
                           => before[i].content \notin files']_vars

\* C4 witness: a pass dropped an expired image record, deleted its file and
\* kept a younger record
C4_Witness ==
    /\ last.op \in {"add_new", "update_config"}
    /\ last.expired > 0
    /\ last.evicted = 0
    /\ last.deleted > 0
    /\ Len(records) > 0

\* C5: after clear_all the store is empty, no temp image file and no
\* temp-image directory remains, and the data file does not exist.
C5_ClearAllLeavesNothing ==
    last.op = "clear_all" =>
        records = <<>> /\ files = {} /\ ~tempDir /\ disk = <<>>

\* C6: delete_record on a record of type text or file deletes no image file.
C6_DeleteNonImageKeepsFiles ==
    [][(last'.op = "delete_record" /\ last'.type # "image") =>
          files' = files /\ tempDir' = tempDir]_vars

\* C7: in every reachable state the record list is in descending id order.
C7_DescendingIds ==
    \A i \in 1..(Len(records) - 1) : records[i].id >= records[i + 1].id

\* C7 witness: a duplicate re-insert bumped the last of three records to the
\* front, above two records of different ids
C7_Witness ==
    /\ last.op = "add_dup"
    /\ last.pos = 3
    /\ Len(records) = 3
    /\ records[1].id > records[2].id
    /\ records[2].id > records[3].id

\* C8: no two records in the store share an id.
C8_UniqueIds ==
    \A i, j \in DOMAIN records : i # j => records[i].id # records[j].id

\* C9 as stated: a poll that finds the clipboard different from last-seen
\* overwrites last-seen with the new value, even when decoding fails.
C9_LastSeenAlwaysOverwritten ==
    [][last'.op \in Adds \cup {"poll_failed"} =>
          PyEq(last_content', Seen(clipboard))]_vars

\* C9 amended: last-seen is overwritten once the new value has been handed to
\* the store; a failed decode leaves last-seen as it was, so the same image
\* still differs from it and is attempted again by the next poll.
C9_LastSeenOverwrittenAfterStore ==
    [][/\ last'.op \in Adds => PyEq(last_content', Seen(clipboard))
       /\ last'.op = "poll_failed" =>
             /\ PyEq(last_content', last_content)
             /\ ~PyEq(last_content', Seen(clipboard'))]_vars

\* C9 witness: a decode failed while an earlier capture was remembered
C9_Witness ==
    /\ last.op = "poll_failed"
    /\ last_content.kind # "none"
    /\ ~captured

\* what a poll that changes nothing leaves alone
PollFrame ==
    /\ records' = records
    /\ disk' = disk
    /\ files' = files
    /\ PyEq(last_content', last_content)
    /\ ~last'.notified

\* C10 as stated: a poll that finds the content equal to last-seen adds and
\* changes nothing and notifies nobody, and content left on the clipboard is
\* captured exactly once: it has been captured after any poll that found it,
\* and is not captured again.
C10_CapturedExactlyOnce ==
    [][last'.op \in PollOps =>
          /\ PyEq(Seen(clipboard), last_content) =>
                last'.op \in {"poll_same", "poll_none"} /\ PollFrame
          /\ last'.op # "poll_none" => captured'
          /\ captured => last'.op \notin Adds]_vars

\* C10 amended: a poll that finds the content equal to last-seen adds and
\* changes nothing and notifies nobody, and content left on the clipboard is
\* captured at most once.
C10_CapturedAtMostOnce ==
    [][last'.op \in PollOps =>
          /\ PyEq(Seen(clipboard), last_content) =>
                last'.op \in {"poll_same", "poll_none"} /\ PollFrame
          /\ last'.op \in Adds => captured'
          /\ captured => last'.op \notin Adds]_vars

\* C10 witness: a poll found the captured content still on the clipboard
C10_Witness ==
    /\ last.op = "poll_same"
    /\ captured
    /\ Len(records) >= 2

\* the formats _check_clipboard asks for, in the order it asks
FormatPriority == <<"CF_UNICODETEXT", "CF_TEXT", "CF_HDROP", "CF_DIB">>

\* the first of them the clipboard offers ("" when it offers none)
FirstAvailable(cb) ==
    LET offered == {i \in DOMAIN FormatPriority : FormatPriority[i] \in cb.fmts}
    IN IF offered = {} THEN "" ELSE FormatPriority[SetMin(offered)]

\* the record type each format is stored as
TypeOf(fmt) ==
    IF fmt \in {"CF_UNICODETEXT", "CF_TEXT"} THEN "text"
    ELSE IF fmt = "CF_HDROP" THEN "file"
    ELSE IF fmt = "CF_DIB" THEN "image" ELSE ""

\* C11: a poll reads one format, the first the clipboard offers in the order
\* Unicode text, legacy text, file-drop, bitmap (none when it offers none of
\* them), so a lower format is read only when no higher one is offered; the
\* poll hands at most one record to the store, of the type of that format.
C11_OneFormatByPriority ==
    [][last'.op \in PollOps =>
          /\ format' = FirstAvailable(clipboard)
          /\ \A k \in DOMAIN FormatPriority :
                (FormatPriority[k] = format') =>
                   \A h \in 1..(k - 1) : FormatPriority[h] \notin clipboard.fmts
          /\ Len(records') <= Len(records) + 1
          /\ last'.op \in Adds =>
                /\ last'.type = TypeOf(format')
                /\ \A j \in DOMAIN records' :
                      Matches(records, records'[j]) = {} =>
                         /\ j = 1
                         /\ records'[j].type = TypeOf(format')
                         /\ records'[j].content = last'.content
          /\ last'.op \notin Adds => records' = records]_vars

\* C11 witness: the clipboard offered legacy text and a file list, and the
\* poll stored the text
C11_Witness ==
    /\ last.op = "add_new"
    /\ format = "CF_TEXT"
    /\ "CF_HDROP" \in clipboard.fmts
    /\ records # <<>>
    /\ records[1].type = "text"

\* C12: a load leaves the records of the data file sorted by id descending,
\* then age-filtered, then cut to max_records; after it every file in the
\* temp-image directory is the content path of a surviving image record, and
\* no file of a surviving image record was deleted.
C12_LoadLeavesNoOrphan ==
    [][last'.op \in {"load", "load_none"} =>
          /\ last'.op = "load" =>
                records' = Truncate(FilterByAge(
                                        [StoreState EXCEPT
                                            !.records = SortDesc(disk[1])],
                                        hasConfig', config', now'),
                                    max_records').records
          /\ files' \subseteq ImagePaths(records')
          /\ files \cap ImagePaths(records') \subseteq files']_vars

\* C13: delete_record(id) and delete_multiple(ids) remove exactly the records
\* whose id is targeted, keep the others as they were and in their order, and
\* delete the file of every image record they remove.
C13_DeleteExactlyTargets ==
    [][last'.op \in {"delete_record", "delete_multiple"} =>
          LET Kept(r) == r.id \notin targets'
              Hit(r) == r.id \in targets'
          IN /\ records' = SelectSeq(records, Kept)
             /\ ImagePaths(SelectSeq(records, Hit)) \cap files' = {}
             /\ files \ files' \subseteq ImagePaths(SelectSeq(records, Hit))]_vars

\* C14: every mutation of the record store (add_record, delete_record,
\* delete_multiple, clear_all, an update_config that drops records) that
\* changes the record list is followed, within the operation that made it, by
\* a call of notify_change.
C14_EveryMutationNotifies ==
    [][(/\ records' # records
        /\ last'.op \in Adds \cup {"delete_record", "delete_multiple",
                                   "clear_all", "update_config"})
          => last'.notified]_vars

\* C15 as stated: load_records never runs on the poll thread (a notification
\* only posts the signal), and every notification is eventually followed by
\* a re-render that the UI thread runs for it.
C15_EveryNotificationRendered ==
    /\ [](ui.by # "poll")
    /\ \A n \in 1..(MaxAdds + 1) : (ui.emitted >= n) ~> (ui.rendered >= n)

\* C15 amended: load_records never runs on the poll thread, and every
\* notification is eventually followed by a re-render that the UI thread
\* runs for it unless the application quits first.
C15_NotificationRenderedUnlessQuit ==
    /\ [](ui.by # "poll")
    /\ \A n \in 1..(MaxAdds + 1) :
          (ui.emitted >= n) ~> (ui.rendered >= n \/ ui.pc = "quit")

\* C15 witness: the UI thread has finished the re-render of a notification
\* the poll thread raised
C15_Witness ==
    /\ ui.emitted >= 1
    /\ ui.rendered = ui.emitted
    /\ ui.by = "ui"
    /\ ~ui.direct
    /\ ui.pc = "loop"
    /\ ui.shown # <<>>

\* C16: every setter persists the whole configuration: a Config constructed
\* after any sequence of setter calls returns from each getter the value last
\* set, and the default for a key never set.
C16_ConfigRoundTrip ==
    config_file.fresh => config = config_file.given

\* C17: a quit with clear_data_on_exit true (the default) leaves no record,
\* no temp image and no data file; with clear_data_on_exit false the records
\* are kept.
C17_QuitClearsByDefault ==
    [][last'.op = "quit" =>
          IF config.clear_data_on_exit
          THEN records' = <<>> /\ files' = {} /\ disk' = <<>>
          ELSE records' = records /\ files' = files /\ disk' = disk]_vars

\* C18: at most one process of the program is past check_single_instance at
\* any time (a second launch returns before it builds a store, a poller or a
\* window).
C18_AtMostOneInstance ==
    Cardinality({p \in Pids : instances[p] # "off"}) <= 1

\* C19: once an add_record on the poll thread and a deletion on the UI thread
\* have both completed, every record added and not targeted by a deletion
\* (ui.hit: the contents of the records the deletions were to remove) is in
\* the store.
C19_AddedRecordNotLost ==
    (poll.pc = "idle" /\ ui.pc \in {"loop", "quit"}) =>
        \A r \in poll.added :
           r.content \notin ui.hit =>
              \E i \in DOMAIN records : records[i].content = r.content

\* C20: a finished re-render shows no record twice, and shows the record
\* sequence the store had at some instant during the render.
C20_RenderShowsOneInstant ==
    (ui.by = "ui" /\ ui.pc # "render") =>
        /\ \A i, j \in DOMAIN ui.shown :
              i # j => ui.shown[i].content # ui.shown[j].content
        /\ Contents(ui.shown) \in {Contents(x) : x \in ui.instants}

\* C21: after stop_monitoring is called the poll loop completes at most the
\* check in flight and starts no further check, its thread terminates, and
\* the poller starts no add_record after that last check
C21_NoCheckAfterStop ==
    /\ [](monitor.stopped => monitor.after = 0)
    /\ (monitor.stopped ~> monitor.pc = "done")
    /\ [][monitor.pc = "done" => monitor'.adds = monitor.adds]_vars

\* C21 as amended: one check may still start after the call, the one whose
\* loop test had read running before it
C21_OneCheckAfterStop ==
    /\ [](monitor.stopped => monitor.after <= 1)
    /\ [][monitor'.after > monitor.after
            => monitor.stopped /\ monitor.pc = "enter"]_vars
    /\ (monitor.stopped ~> monitor.pc = "done")
    /\ [][monitor.pc = "done"
            => monitor'.adds = monitor.adds /\ monitor'.checks = monitor.checks
               /\ monitor'.pc = "done"]_vars

\* the thread has ended after a check that started after stop_monitoring
C21_Witness ==
    /\ monitor.stopped
    /\ monitor.pc = "done"
    /\ monitor.after = 1

\* C22: a check that opened the clipboard has closed it when it returns, on
\* every path; an exception raised in a check never ends the poll loop (the
\* thread ends only at a loop test that reads running false), and while
\* running is true the check after a failed one still happens
C22_ClosedAndLoopSurvives ==
    /\ [](monitor.pc \in {"sleep", "test", "enter", "done"} => ~monitor.open)
    /\ [][monitor'.pc = "done" /\ monitor.pc # "done"
            => monitor.pc = "test" /\ ~monitor.running]_vars
    /\ ((monitor.failed # "" /\ monitor.pc = "sleep" /\ monitor.running)
            ~> (monitor.pc = "enter" \/ ~monitor.running))

\* the next check is about to start after one that opened the clipboard and
\* raised in its branch
C22_Witness ==
    /\ monitor.failed = "body"
    /\ monitor.pc = "enter"
    /\ monitor.running
    /\ ~monitor.open

\* C23: from an empty store, or one loaded from a file the store wrote, after
\* any sequence of add_record, delete_record, delete_multiple, update_config
\* and clear_all no two records have the same content and the same type
C23_NoDuplicateContent ==
    \A i, j \in DOMAIN records :
        (records[i].content = records[j].content
         /\ records[i].type = records[j].type) => i = j

\* a duplicate insert has just met a store of two records or more
C23_Witness ==
    /\ last.op = "add_dup"
    /\ Len(records) >= 2

\* C24: in a sequential run of captures, deletions, evictions and config
\* updates every image record held in the store has its file on disk: an
\* operation deletes an image file only if it leaves no record referencing it
C24_ImageRecordsHaveFiles ==
    \A i \in DOMAIN records :
        records[i].type = "image" => records[i].content \in files

\* the data file holds the in-memory records, in their order (no file and
\* no record: a store never saved)
Synced(file, recs) == file = <<recs>> \/ (file = <<>> /\ recs = <<>>)

\* C25: after the construction of the store and after every add_record,
\* delete_record, delete_multiple and update_config the data file holds
\* exactly the in-memory records, in the same order
C25_FileIsMemory ==
    [][last'.op \in {"load", "load_none", "add_new", "add_dup", "delete_record",
                     "delete_multiple", "update_config"}
          => Synced(disk', records')]_vars

\* C26: a duplicate insert changes only the matched record's id, timestamp
\* and position: the other records are unchanged and keep their order, the
\* matched record keeps its other fields (favorited), no record is evicted
\* and no image file is deleted
C26_DuplicateInsertFrame ==
    [][last'.op = "add_dup" =>
          /\ last'.pos \in DOMAIN records
          /\ records' = <<[records[last'.pos] EXCEPT
                              !.id = now', !.timestamp = Strftime(now')]>>
                        \o RemoveAt(records, last'.pos)
          /\ last'.expired = 0
          /\ last'.evicted = 0
          /\ files \subseteq files']_vars

\* a duplicate insert moved the second record to the front of a store under
\* an age limit that holds an image record and a record past the limit
C26_Witness ==
    /\ last.op = "add_dup"
    /\ last.pos = 2
    /\ hasConfig
    /\ config.max_age_minutes # None
    /\ \E i \in DOMAIN records : records[i].type = "image"
    /\ \E i \in DOMAIN records :
          now - records[i].id > config.max_age_minutes * SecondsPerMinute

\* C27: update_config with a configuration under which nothing is evicted
\* leaves the record list and the data file unchanged; the data file is
\* rewritten only when the record count decreased
C27_UpdateConfigFrame ==
    [][last'.op = "update_config" =>
          /\ last'.expired + last'.evicted = 0
                => records' = records /\ disk' = disk /\ files' = files
          /\ disk' # disk => Len(records') < Len(records)]_vars

\* update_config has set a limit of two records and an age limit on a store
\* of two records and evicted none
C27_Witness ==
    /\ last.op = "update_config"
    /\ last.expired + last.evicted = 0
    /\ config.max_records = 2
    /\ config.max_age_minutes # None
    /\ Len(records) = 2

\* C28: add_observer never registers an observer twice, remove_observer of an
\* unregistered observer changes nothing, and notify_change calls every
\* registered observer exactly once, in registration order, even when an
\* earlier one raises
C28_Observers ==
    /\ [](\A i, j \in DOMAIN observers : observers[i] = observers[j] => i = j)
    /\ [][(calls'.op = "remove" /\ calls'.at = 0
           /\ ~Registered(observers, calls'.arg))
             => observers' = observers]_vars
    /\ [](calls.op = "notified"
             => [i \in DOMAIN calls.done |-> calls.done[i].observer] = observers)

\* notify_change has gone through three observers of which the first raised
C28_Witness ==
    /\ calls.op = "notified"
    /\ Len(observers) = 3
    /\ observers[1] \in calls.raised
    /\ Len(calls.done) = 3

\* C29: a Storage built without a config, as main builds it, keeps at most
\* 50 records and never evicts by age; a Storage built with a config takes
\* its limit from the config's max_records (None: no limit) and ignores the
\* max_records argument
C29_LimitOfTheBuild ==
    /\ []((~hasConfig /\ max_records_arg = DefaultMaxRecords)
             => max_records = DefaultMaxRecords
                /\ Len(records) <= DefaultMaxRecords)
    /\ [](~hasConfig => last.expired = 0)
    /\ [](hasConfig => max_records = config.max_records)
    /\ []((hasConfig /\ config.max_records # None)
             => Len(records) <= config.max_records)
    /\ [][(hasConfig /\ config.max_records = None /\ last'.op = "add_new")
            => last'.evicted = 0]_vars

\* a store built as main builds it is full, the capture just run has evicted
\* the 51st record, and the oldest record kept is older than a minute
C29_Witness ==
    /\ ~hasConfig
    /\ max_records_arg = DefaultMaxRecords
    /\ Len(records) = DefaultMaxRecords
    /\ last.op = "add_new"
    /\ last.evicted = 1
    /\ now - records[Len(records)].id > SecondsPerMinute

====
